---- MODULE Spec2Model ----
(***************************************************************************)
(* The market-phase detector of src/bot/market_phases.py as a state        *)
(* machine: a MarketPhaseDetector (its config, its cached reference-index  *)
(* data), the price frame handed to detect_phase, and the callers that     *)
(* evaluate it.                                                            *)
(*                                                                         *)
(* Prices, EMAs, slopes and the momentum are float64 in the program; here  *)
(* they are fixed-point integers with four decimals (1.0 is Scale), each   *)
(* division rounded to the nearest unit.  A float that is not finite is    *)
(* kept as such: a value is a record [t, v] with t one of "fin", "nan",    *)
(* "inf" (v the sign of an infinity), compared the IEEE way.               *)
(***************************************************************************)
EXTENDS Integers, Sequences, FiniteSets, TLC

---------------------------------------------------------------------------
(* Fixed-point numbers *)

Scale == 10 ^ 4

\* The decimal n/d as a fixed-point number: Dec(35, 100) is 0.35.
Dec(n, d) == (n * Scale) \div d

\* a / b rounded to the nearest integer (b > 0).
Rdiv(a, b) == (2 * a + b) \div (2 * b)

Abs(x) == IF x < 0 THEN 0 - x ELSE x

Fin(v) == [t |-> "fin", v |-> v]
NaN == [t |-> "nan", v |-> 0]
PInf == [t |-> "inf", v |-> 1]
NInf == [t |-> "inf", v |-> 0 - 1]

IsFin(x) == x.t = "fin"
IsNaN(x) == x.t = "nan"
IsInf(x) == x.t = "inf"

\* a - b
XSub(a, b) ==
    IF IsNaN(a) \/ IsNaN(b) THEN NaN
    ELSE IF IsInf(a) THEN (IF IsInf(b) /\ a.v = b.v THEN NaN ELSE a)
    ELSE IF IsInf(b) THEN [t |-> "inf", v |-> 0 - b.v]
    ELSE Fin(a.v - b.v)

\* a + b
XAdd(a, b) ==
    IF IsNaN(a) \/ IsNaN(b) THEN NaN
    ELSE IF IsInf(a) THEN (IF IsInf(b) /\ a.v # b.v THEN NaN ELSE a)
    ELSE IF IsInf(b) THEN b
    ELSE Fin(a.v + b.v)

\* (n / d) * a for a positive decimal n/d: 0.001 * price is XScale(price, 1, 1000).
XScale(a, n, d) == IF IsFin(a) THEN Fin(Rdiv(a.v * n, d)) ELSE a

XAbs(a) ==
    IF IsFin(a) THEN Fin(Abs(a.v)) ELSE IF IsInf(a) THEN PInf ELSE NaN

\* a < b; every comparison with a NaN is false.
XLt(a, b) ==
    IF IsNaN(a) \/ IsNaN(b) THEN FALSE
    ELSE IF IsInf(a) THEN a.v < 0 /\ ~(IsInf(b) /\ b.v < 0)
    ELSE IF IsInf(b) THEN b.v > 0
    ELSE a.v < b.v

XGt(a, b) == XLt(b, a)

XLe(a, b) == ~IsNaN(a) /\ ~IsNaN(b) /\ ~XLt(b, a)

\* Python's min(a, b) and max(a, b): the first argument unless the second
\* compares below (above) it.
PyMin(a, b) == IF XLt(b, a) THEN b ELSE a
PyMax(a, b) == IF XGt(b, a) THEN b ELSE a

\* The integer square root of n >= 0.
RECURSIVE SqrtBetween(_, _, _)
SqrtBetween(n, lo, hi) ==
    IF lo >= hi THEN lo
    ELSE LET mid == (lo + hi + 1) \div 2
         IN  IF mid * mid <= n THEN SqrtBetween(n, mid, hi)
             ELSE SqrtBetween(n, lo, mid - 1)

Isqrt(n) == SqrtBetween(n, 0, 46340)

RECURSIVE SumSeq(_)
SumSeq(s) ==
    IF Len(s) = 0 THEN 0
    ELSE IF Len(s) = 1 THEN s[1]
    ELSE SumSeq(SubSeq(s, 1, Len(s) \div 2))
         + SumSeq(SubSeq(s, Len(s) \div 2 + 1, Len(s)))

\* The last n elements of s (s.iloc[-n:]).
LastN(s, n) ==
    IF Len(s) <= n THEN s ELSE SubSeq(s, Len(s) - n + 1, Len(s))

---------------------------------------------------------------------------
(* Frames: a pandas DataFrame as far as the detector reads it.             *)
(*   rows      the number of rows                                          *)
(*   has_close whether there is a "close" column                           *)
(*   close     the close column, one value per row                         *)
(*   cols      the ema_<period> columns present, by period                 *)

NoCols == [p \in {} |-> <<>>]

\* DataFrame.empty, for a frame that has at least one column.
Empty(df) == df.rows = 0

MarketPhase == {"unordered", "emerging", "trending", "pullback"}

MarketIndex ==
    {"US30", "SPX", "NDX", "RUT", "VIX", "FTSE", "DAX", "NIKKEI"}

\* PhaseDetectionConfig(): the defaults of the dataclass.
DefaultConfig ==
    [candle_size |-> "15Min", fast_ema |-> 13, medium_ema |-> 34,
     slow_ema |-> 89, index |-> "US30"]

---------------------------------------------------------------------------
(* Series.ewm(span = p, adjust = False).mean()                             *)

\* The weights of the recursion are kept to two decimals.
WeightOne == 10 ^ 2

\* One step of the recursion with alpha = 1 / p instead of 2 / (p + 1).
EwmStep_alpha_one_over_p(st, c, p) ==
    IF IsFin(st.w)
    THEN IF IsFin(c)
         THEN [w |-> Fin(st.w.v + Rdiv((c.v - st.w.v) * WeightOne,
                                       (p - 1) * st.fq + WeightOne)),
               fq |-> WeightOne]
         ELSE [w |-> st.w, fq |-> Rdiv(st.fq * (p - 1), p)]
    ELSE IF IsFin(c) THEN [w |-> c, fq |-> WeightOne]
         ELSE [w |-> NaN, fq |-> WeightOne]

\* One step of the recursion.  st is [w, fq]: the weighted average so far
\* and the decay (1 - alpha)^k of its weight over the k missing values
\* since the last observation; alpha = 2 / (p + 1).  The window preparation
\* turns an infinite value into a missing one.  With no missing value in
\* between the step is w + alpha * (c - w).
EwmStep(st, c, p) ==
    IF IsFin(st.w)
    THEN IF IsFin(c)
         THEN [w |-> Fin(st.w.v + Rdiv((c.v - st.w.v) * 2 * WeightOne,
                                       (p - 1) * st.fq + 2 * WeightOne)),
               fq |-> WeightOne]
         ELSE [w |-> st.w, fq |-> Rdiv(st.fq * (p - 1), p + 1)]
    ELSE IF IsFin(c) THEN [w |-> c, fq |-> WeightOne]
         ELSE [w |-> NaN, fq |-> WeightOne]

\* The states of the recursion over the bars lo .. hi, entered in state st
\* (the run is cut in halves, the second entered where the first ends).
RECURSIVE EwmFrom(_, _, _, _, _)
EwmFrom(close, p, lo, hi, st) ==
    IF lo > hi THEN <<>>
    ELSE IF lo = hi THEN <<EwmStep(st, close[lo], p)>>
    ELSE LET mid == (lo + hi) \div 2
             head == EwmFrom(close, p, lo, mid, st)
         IN  head \o EwmFrom(close, p, mid + 1, hi, head[Len(head)])

\* The recursion started from an average of 0 instead of the first close.
EwmMean_from_zero(close, p) ==
    LET states ==
            EwmFrom(close, p, 1, Len(close), [w |-> Fin(0), fq |-> WeightOne])
    IN  [i \in 1..Len(close) |-> states[i].w]

EwmMean(close, p) ==
    LET states ==
            EwmFrom(close, p, 1, Len(close), [w |-> NaN, fq |-> WeightOne])
    IN  [i \in 1..Len(close) |-> states[i].w]

\* ewm(span = p) accepts a span of at least 1 and raises ValueError for any
\* other.
ValidSpan(p) == p >= 1

\* A call that ended by raising ValueError, and whether x is such an outcome.
ValueError == [raised |-> "ValueError"]

Raised(x) == "raised" \in DOMAIN x

\* The names of the three EMA columns of a config, by period.
EmaCols(config) == {config.fast_ema, config.medium_ema, config.slow_ema}

\* calculate_emas: a copy of data with the three EMA columns (re)computed
\* from the close column.
calculate_emas(self, data) ==
    IF \E p \in EmaCols(self.config) : ~ValidSpan(p) THEN ValueError
    ELSE [data EXCEPT !.cols =
             [p \in (DOMAIN data.cols) \cup EmaCols(self.config) |->
                 IF p \in EmaCols(self.config) THEN EwmMean(data.close, p)
                 ELSE data.cols[p]]]

\* Indicators.calculate_emas: the periods it computes by default, and one
\* EMA column per period of the price series.
DefaultPeriods == {5, 7, 9, 11, 13, 34, 89}

\* Indicators.calculate_emas with every average started from 0 instead of
\* the first price.
Indicators_calculate_emas_from_zero(price_data, periods) ==
    [p \in periods |-> EwmMean_from_zero(price_data, p)]

Indicators_calculate_emas(price_data, periods) ==
    [p \in periods |-> EwmMean(price_data, p)]

---------------------------------------------------------------------------
(* calculate_slope and calculate_momentum                                  *)

SelectFinite(s) == SelectSeq(s, LAMBDA x : IsFin(x))
DropNa(s) == SelectSeq(s, LAMBDA x : ~IsNaN(x))

\* The least-squares slope of y over x = 0 .. Len(y) - 1 (numpy lstsq).
LstsqSlope(y) ==
    LET n == Len(y)
        z == [i \in 1..n |-> y[i] - y[1]]
        sx == SumSeq([i \in 1..n |-> i - 1])
        sxx == SumSeq([i \in 1..n |-> (i - 1) * (i - 1)])
        sy == SumSeq(z)
        sxy == SumSeq([i \in 1..n |-> (i - 1) * z[i]])
    IN  Rdiv(n * sxy - sx * sy, n * sxx - sx * sx)

\* calculate_slope by simple differencing: the rise from the first to the
\* last point of the window over the number of steps between them.
calculate_slope_by_differencing(series, window) ==
    IF Len(series) < window \/ \A i \in 1..Len(series) : IsNaN(series[i])
    THEN 0
    ELSE LET valid_series == LastN(DropNa(series), window)
             y == [i \in 1..Len(valid_series) |-> valid_series[i].v]
         IN  IF Len(valid_series) < 2 THEN 0
             ELSE IF \A i \in 1..Len(y) : y[i] = y[1] THEN 0
             ELSE Rdiv(y[Len(y)] - y[1], Len(y) - 1)

\* calculate_slope(series, window): series is an EMA column, whose values
\* are finite or missing.
calculate_slope(series, window) ==
    IF Len(series) < window \/ \A i \in 1..Len(series) : IsNaN(series[i])
    THEN 0
    ELSE LET valid_series == LastN(DropNa(series), window)
             y == [i \in 1..Len(valid_series) |-> valid_series[i].v]
         IN  IF Len(valid_series) < 2 THEN 0
             ELSE IF \A i \in 1..Len(y) : y[i] = y[1] THEN 0
             ELSE LstsqSlope(y)

SlopeWindow == 5

\* Series.diff(): the first value is missing.
Diff(close) ==
    [i \in 1..Len(close) |->
        IF i = 1 THEN NaN ELSE XSub(close[i], close[i - 1])]

\* calculate_momentum with the rolling sum in place of the rolling mean.
calculate_momentum_rolling_sum(df) ==
    LET d == DropNa(Diff(df.close))
        w == SelectFinite(LastN(d, 5))
    IN  IF d = <<>> \/ w = <<>> THEN 0
        ELSE SumSeq([i \in 1..Len(w) |-> w[i].v])

\* calculate_momentum with rolling(5) left at its default min_periods: a
\* window of fewer than 5 differences has no mean and reads 0.0.
calculate_momentum_full_window(df) ==
    LET d == DropNa(Diff(df.close))
        w == SelectFinite(LastN(d, 5))
    IN  IF Len(d) < 5 \/ Len(w) < 5 THEN 0
        ELSE Rdiv(SumSeq([i \in 1..Len(w) |-> w[i].v]), Len(w))

\* calculate_momentum: the rolling mean (window 5, min_periods 1) of the
\* differences that are not missing, at the last one; an infinite
\* difference counts as missing inside the rolling window.  No difference,
\* or a window of missing values only, reads 0.0.
calculate_momentum(df) ==
    LET d == DropNa(Diff(df.close))
        w == SelectFinite(LastN(d, 5))
    IN  IF d = <<>> \/ w = <<>> THEN 0
        ELSE Rdiv(SumSeq([i \in 1..Len(w) |-> w[i].v]), Len(w))

---------------------------------------------------------------------------
(* The phase predicates                                                    *)

\* series.iloc[-1]
Latest(series) == series[Len(series)]

\* "Calculate EMAs if not already present": the columns of df are trusted
\* when all three are there.
EnsureEmas(self, df) ==
    IF EmaCols(self.config) \subseteq DOMAIN df.cols THEN df
    ELSE calculate_emas(self, df)

\* What every predicate reads off the frame: the latest price and EMAs, the
\* three slopes and the momentum.
Readings(self, df) ==
    [price |-> Latest(df.close),
     fast |-> Latest(df.cols[self.config.fast_ema]),
     medium |-> Latest(df.cols[self.config.medium_ema]),
     slow |-> Latest(df.cols[self.config.slow_ema]),
     fast_slope |-> calculate_slope(df.cols[self.config.fast_ema], SlopeWindow),
     medium_slope |-> calculate_slope(df.cols[self.config.medium_ema], SlopeWindow),
     slow_slope |-> calculate_slope(df.cols[self.config.slow_ema], SlopeWindow),
     momentum |-> calculate_momentum(df)]

\* df['close'].diff().rolling(5).std() at row i: the sample standard
\* deviation of the five differences ending there, missing unless all five
\* are there.  Computed on the differences to two decimals.
RollingStd(d, i) ==
    IF i < 5 \/ \E j \in (i - 4)..i : ~IsFin(d[j]) THEN NaN
    ELSE LET c == [j \in 1..5 |-> Rdiv(d[i - 5 + j].v, Scale \div 100)]
             sq == SumSeq([j \in 1..5 |-> c[j] * c[j]])
             sm == SumSeq(c)
         IN  Fin(10 * Isqrt(5 * (5 * sq - sm * sm)))

\* price_changes.iloc[-5:].mean() > 0.8
HighVolatility(close) ==
    LET d == Diff(close)
        price_changes == [i \in 1..Len(d) |-> RollingStd(d, i)]
        w == SelectFinite(LastN(price_changes, 5))
    IN  w # <<>> /\
        Rdiv(SumSeq([i \in 1..Len(w) |-> w[i].v]), Len(w)) > Dec(8, 10)

detect_unordered_phase(self, df0) ==
    LET df == EnsureEmas(self, df0)
        r == Readings(self, df)
        slopes_weak ==
            /\ Abs(r.fast_slope) < Dec(5, 100)
            /\ Abs(r.medium_slope) < Dec(5, 100)
            /\ Abs(r.slow_slope) < Dec(5, 100)
        emas_compressed ==
            XLt(XAbs(XSub(r.fast, r.slow)), XScale(r.price, 2, 1000))
        high_volatility == HighVolatility(df.close)
    IN  (slopes_weak /\ emas_compressed) \/ (slopes_weak /\ high_volatility)

\* detect_emerging_phase with the fast slope bounded by 0.35.
detect_emerging_phase_fast_035(self, df0) ==
    LET df == EnsureEmas(self, df0)
        r == Readings(self, df)
        margin == XScale(r.price, 1, 1000)
        accelerating ==
            /\ XGt(r.price, XSub(r.fast, margin))
            /\ XGt(r.fast, XSub(r.medium, margin))
            /\ XGt(r.medium, XSub(r.slow, margin))
        slopes_emerging ==
            /\ Dec(25, 100) < r.fast_slope /\ r.fast_slope <= Dec(35, 100)
            /\ Dec(15, 100) < r.medium_slope /\ r.medium_slope <= Dec(5, 10)
            /\ 0 < r.slow_slope /\ r.slow_slope < Dec(4, 10)
        momentum_emerging ==
            Dec(2, 10) <= r.momentum /\ r.momentum <= Dec(8, 10)
    IN  accelerating /\ slopes_emerging /\ momentum_emerging

\* detect_emerging_phase without the momentum test.
detect_emerging_phase_any_momentum(self, df0) ==
    LET df == EnsureEmas(self, df0)
        r == Readings(self, df)
        margin == XScale(r.price, 1, 1000)
        accelerating ==
            /\ XGt(r.price, XSub(r.fast, margin))
            /\ XGt(r.fast, XSub(r.medium, margin))
            /\ XGt(r.medium, XSub(r.slow, margin))
        slopes_emerging ==
            /\ Dec(25, 100) < r.fast_slope /\ r.fast_slope <= Dec(75, 100)
            /\ Dec(15, 100) < r.medium_slope /\ r.medium_slope <= Dec(5, 10)
            /\ 0 < r.slow_slope /\ r.slow_slope < Dec(4, 10)
    IN  accelerating /\ slopes_emerging

\* detect_emerging_phase with the upper bound of the fast slope, 0.75, on
\* the medium slope too.
detect_emerging_phase_medium_075(self, df0) ==
    LET df == EnsureEmas(self, df0)
        r == Readings(self, df)
        margin == XScale(r.price, 1, 1000)
        accelerating ==
            /\ XGt(r.price, XSub(r.fast, margin))
            /\ XGt(r.fast, XSub(r.medium, margin))
            /\ XGt(r.medium, XSub(r.slow, margin))
        slopes_emerging ==
            /\ Dec(25, 100) < r.fast_slope /\ r.fast_slope <= Dec(75, 100)
            /\ Dec(15, 100) < r.medium_slope /\ r.medium_slope <= Dec(75, 100)
            /\ 0 < r.slow_slope /\ r.slow_slope < Dec(4, 10)
        momentum_emerging ==
            Dec(2, 10) <= r.momentum /\ r.momentum <= Dec(8, 10)
    IN  accelerating /\ slopes_emerging /\ momentum_emerging

detect_emerging_phase(self, df0) ==
    LET df == EnsureEmas(self, df0)
        r == Readings(self, df)
        margin == XScale(r.price, 1, 1000)
        accelerating ==
            /\ XGt(r.price, XSub(r.fast, margin))
            /\ XGt(r.fast, XSub(r.medium, margin))
            /\ XGt(r.medium, XSub(r.slow, margin))
        slopes_emerging ==
            /\ Dec(25, 100) < r.fast_slope /\ r.fast_slope <= Dec(75, 100)
            /\ Dec(15, 100) < r.medium_slope /\ r.medium_slope <= Dec(5, 10)
            /\ 0 < r.slow_slope /\ r.slow_slope < Dec(4, 10)
        momentum_emerging ==
            Dec(2, 10) <= r.momentum /\ r.momentum <= Dec(8, 10)
    IN  accelerating /\ slopes_emerging /\ momentum_emerging

\* detect_trending_phase asking 0.35 of all three slopes.
detect_trending_phase_slow_035(self, df0) ==
    LET df == EnsureEmas(self, df0)
        r == Readings(self, df)
        margin == XScale(r.price, 1, 1000)
        aligned ==
            /\ XGt(r.price, XSub(r.fast, margin))
            /\ XGt(r.fast, XSub(r.medium, margin))
            /\ XGt(r.medium, XSub(r.slow, margin))
            /\ XGt(XSub(r.fast, r.slow), XScale(r.price, 1, 100))
        steady_trend ==
            /\ r.fast_slope >= Dec(35, 100)
            /\ r.medium_slope >= Dec(35, 100)
            /\ r.slow_slope >= Dec(35, 100)
        price_momentum == r.momentum >= Dec(25, 100)
    IN  aligned /\ steady_trend /\ price_momentum

detect_trending_phase(self, df0) ==
    LET df == EnsureEmas(self, df0)
        r == Readings(self, df)
        margin == XScale(r.price, 1, 1000)
        aligned ==
            /\ XGt(r.price, XSub(r.fast, margin))
            /\ XGt(r.fast, XSub(r.medium, margin))
            /\ XGt(r.medium, XSub(r.slow, margin))
            /\ XGt(XSub(r.fast, r.slow), XScale(r.price, 1, 100))
        steady_trend ==
            /\ r.fast_slope >= Dec(35, 100)
            /\ r.medium_slope >= Dec(35, 100)
            /\ r.slow_slope >= Dec(25, 100)
        price_momentum == r.momentum >= Dec(25, 100)
    IN  aligned /\ steady_trend /\ price_momentum

\* detect_pullback asking positive slopes of all three EMAs.
detect_pullback_positive_slopes(self, df0) ==
    LET df == EnsureEmas(self, df0)
        r == Readings(self, df)
        margin == XScale(r.price, 1, 1000)
        price_in_zone ==
            /\ XLe(XSub(PyMin(r.fast, r.medium), margin), r.price)
            /\ XLe(r.price, XAdd(PyMax(r.fast, r.medium), margin))
        prior_trend == XLt(r.slow, r.medium)
        slopes_ok ==
            /\ r.fast_slope > 0
            /\ r.medium_slope > 0
            /\ r.slow_slope > 0
        momentum_recovering == r.momentum > 0
    IN  price_in_zone /\ prior_trend /\ slopes_ok /\ momentum_recovering

\* detect_pullback with the floor of the other two slopes, -0.1, on the slow
\* slope too.
detect_pullback_slow_floor(self, df0) ==
    LET df == EnsureEmas(self, df0)
        r == Readings(self, df)
        margin == XScale(r.price, 1, 1000)
        price_in_zone ==
            /\ XLe(XSub(PyMin(r.fast, r.medium), margin), r.price)
            /\ XLe(r.price, XAdd(PyMax(r.fast, r.medium), margin))
        prior_trend == XLt(r.slow, r.medium)
        slopes_ok ==
            /\ r.fast_slope > 0 - Dec(1, 10)
            /\ r.medium_slope > 0 - Dec(1, 10)
            /\ r.slow_slope > 0 - Dec(1, 10)
        momentum_recovering == r.momentum > 0
    IN  price_in_zone /\ prior_trend /\ slopes_ok /\ momentum_recovering

\* detect_pullback without its momentum condition.
detect_pullback_any_momentum(self, df0) ==
    LET df == EnsureEmas(self, df0)
        r == Readings(self, df)
        margin == XScale(r.price, 1, 1000)
        price_in_zone ==
            /\ XLe(XSub(PyMin(r.fast, r.medium), margin), r.price)
            /\ XLe(r.price, XAdd(PyMax(r.fast, r.medium), margin))
        prior_trend == XLt(r.slow, r.medium)
        slopes_ok ==
            /\ r.fast_slope > 0 - Dec(1, 10)
            /\ r.medium_slope > 0 - Dec(1, 10)
            /\ r.slow_slope > 0
    IN  price_in_zone /\ prior_trend /\ slopes_ok

detect_pullback(self, df0) ==
    LET df == EnsureEmas(self, df0)
        r == Readings(self, df)
        margin == XScale(r.price, 1, 1000)
        price_in_zone ==
            /\ XLe(XSub(PyMin(r.fast, r.medium), margin), r.price)
            /\ XLe(r.price, XAdd(PyMax(r.fast, r.medium), margin))
        prior_trend == XLt(r.slow, r.medium)
        slopes_ok ==
            /\ r.fast_slope > 0 - Dec(1, 10)
            /\ r.medium_slope > 0 - Dec(1, 10)
            /\ r.slow_slope > 0
        momentum_recovering == r.momentum > 0
    IN  price_in_zone /\ prior_trend /\ slopes_ok /\ momentum_recovering

---------------------------------------------------------------------------
(* detect_phase                                                            *)

\* _check_ema_alignment: the EMA hierarchy fast > medium > slow.
check_ema_alignment(metrics) ==
    /\ XGt(metrics.ema_fast, metrics.ema_medium)
    /\ XGt(metrics.ema_medium, metrics.ema_slow)

\* What a call hands back: a (phase, metrics) pair.
Returned(phase, metrics) == [phase |-> phase, metrics |-> metrics]

Metrics(self, df, label) ==
    [ema_fast |-> Latest(df.cols[self.config.fast_ema]),
     ema_medium |-> Latest(df.cols[self.config.medium_ema]),
     ema_slow |-> Latest(df.cols[self.config.slow_ema]),
     close |-> Latest(df.close),
     fast_slope |-> calculate_slope(df.cols[self.config.fast_ema], SlopeWindow),
     medium_slope |-> calculate_slope(df.cols[self.config.medium_ema], SlopeWindow),
     slow_slope |-> calculate_slope(df.cols[self.config.slow_ema], SlopeWindow),
     price_momentum |-> calculate_momentum(df),
     detected_phase |-> label]

\* detect_phase with the emerging check moved ahead of the pullback check.
detect_phase_emerging_first(self, df0) ==
    IF Empty(df0) \/ ~df0.has_close
    THEN Returned("unordered", [error |-> "Invalid input data"])
    ELSE LET df == calculate_emas(self, df0)
         IN  IF detect_trending_phase(self, df)
             THEN Returned("trending", Metrics(self, df, "trending"))
             ELSE IF detect_emerging_phase(self, df)
             THEN Returned("emerging", Metrics(self, df, "emerging"))
             ELSE IF detect_pullback(self, df)
             THEN Returned("pullback", Metrics(self, df, "pullback"))
             ELSE Returned("unordered", Metrics(self, df, "unordered"))

\* detect_phase without its closing default: a frame no predicate matches
\* falls off the end of the function, which hands back None.
detect_phase_without_default(self, df0) ==
    IF Empty(df0) \/ ~df0.has_close
    THEN Returned("unordered", [error |-> "Invalid input data"])
    ELSE LET df == calculate_emas(self, df0)
         IN  IF detect_trending_phase(self, df)
             THEN Returned("trending", Metrics(self, df, "trending"))
             ELSE IF detect_pullback(self, df)
             THEN Returned("pullback", Metrics(self, df, "pullback"))
             ELSE IF detect_emerging_phase(self, df)
             THEN Returned("emerging", Metrics(self, df, "emerging"))
             ELSE IF detect_unordered_phase(self, df)
             THEN Returned("unordered", Metrics(self, df, "unordered"))
             ELSE [phase |-> "none", metrics |-> [none |-> TRUE]]

\* detect_phase validating only df.empty: reading the close column of a
\* frame that has none raises KeyError.
detect_phase_unchecked_close(self, df0) ==
    IF Empty(df0)
    THEN Returned("unordered", [error |-> "Invalid input data"])
    ELSE IF ~df0.has_close
    THEN [phase |-> "raised", metrics |-> [exception |-> "KeyError"]]
    ELSE LET df == calculate_emas(self, df0)
         IN  IF detect_trending_phase(self, df)
             THEN Returned("trending", Metrics(self, df, "trending"))
             ELSE IF detect_pullback(self, df)
             THEN Returned("pullback", Metrics(self, df, "pullback"))
             ELSE IF detect_emerging_phase(self, df)
             THEN Returned("emerging", Metrics(self, df, "emerging"))
             ELSE Returned("unordered", Metrics(self, df, "unordered"))

\* detect_phase computing the EMAs only when the frame does not carry them
\* yet, as the four predicates do.
detect_phase_trusting_columns(self, df0) ==
    IF Empty(df0) \/ ~df0.has_close
    THEN Returned("unordered", [error |-> "Invalid input data"])
    ELSE LET df == EnsureEmas(self, df0)
         IN  IF detect_trending_phase(self, df)
             THEN Returned("trending", Metrics(self, df, "trending"))
             ELSE IF detect_pullback(self, df)
             THEN Returned("pullback", Metrics(self, df, "pullback"))
             ELSE IF detect_emerging_phase(self, df)
             THEN Returned("emerging", Metrics(self, df, "emerging"))
             ELSE IF detect_unordered_phase(self, df)
             THEN Returned("unordered", Metrics(self, df, "unordered"))
             ELSE Returned("unordered", Metrics(self, df, "unordered"))

detect_phase(self, df0) ==
    IF Empty(df0) \/ ~df0.has_close
    THEN Returned("unordered", [error |-> "Invalid input data"])
    ELSE LET df == calculate_emas(self, df0)
         IN  IF Raised(df) THEN df
             ELSE IF detect_trending_phase(self, df)
             THEN Returned("trending", Metrics(self, df, "trending"))
             ELSE IF detect_pullback(self, df)
             THEN Returned("pullback", Metrics(self, df, "pullback"))
             ELSE IF detect_emerging_phase(self, df)
             THEN Returned("emerging", Metrics(self, df, "emerging"))
             ELSE IF detect_unordered_phase(self, df)
             THEN Returned("unordered", Metrics(self, df, "unordered"))
             ELSE Returned("unordered", Metrics(self, df, "unordered"))

---------------------------------------------------------------------------
(* decimal.Decimal and RiskManager                                         *)

\* The greatest common divisor of a >= 0 and b >= 0.
RECURSIVE Gcd(_, _)
Gcd(a, b) == IF b = 0 THEN a ELSE Gcd(b, a % b)

\* A Decimal is kept as the fraction n / d in lowest terms, d > 0: the
\* products and quotients of the amounts below are exact at the 28 digits
\* of the decimal context, or agree with the fraction to the cent.
Q(n, d) ==
    LET g == Gcd(Abs(n), d)
    IN  [n |-> n \div g, d |-> d \div g]

\* a - b, abs(a), a * b and a / b (b is not 0).
QSub(a, b) == Q(a.n * b.d - b.n * a.d, a.d * b.d)

QAbs(a) == [n |-> Abs(a.n), d |-> a.d]

QMul(a, b) ==
    LET x == Q(a.n, b.d)
        y == Q(b.n, a.d)
    IN  [n |-> x.n * y.n, d |-> x.d * y.d]

QDiv(a, b) ==
    QMul(a, IF b.n < 0 THEN [n |-> 0 - b.d, d |-> 0 - b.n]
            ELSE [n |-> b.d, d |-> b.n])

\* a.quantize(Decimal('0.01')) for a >= 0: the nearest multiple of 0.01, a
\* tie going to the even one (ROUND_HALF_EVEN, the context's default).
Quantize(a) ==
    LET cents == (a.n * 100) \div a.d
        rest == a.n * 100 - cents * a.d
        up == 2 * rest > a.d \/ (2 * rest = a.d /\ cents % 2 = 1)
    IN  Q(IF up THEN cents + 1 ELSE cents, 100)

\* A division by Decimal zero raises.
DivisionByZero == [raised |-> "DivisionByZero"]

\* RiskManager(account_size, risk_per_trade, max_positions)
RiskManager(account_size, risk_per_trade, max_positions) ==
    [account_size |-> account_size, risk_per_trade |-> risk_per_trade,
     max_positions |-> max_positions]

calculate_position_size(self, entry_price, stop_loss_price, pip_value) ==
    LET risk_amount == QMul(self.account_size, self.risk_per_trade)
        price_distance == QAbs(QSub(entry_price, stop_loss_price))
    IN  IF pip_value.n = 0 THEN DivisionByZero
        ELSE LET pips_at_risk == QDiv(price_distance, pip_value)
             IN  IF pips_at_risk.n = 0 THEN DivisionByZero
                 ELSE LET risk_per_pip == QDiv(risk_amount, pips_at_risk)
                          position_size == QDiv(risk_per_pip, pip_value)
                      IN  Quantize(position_size)

---------------------------------------------------------------------------
(* SignalGenerator and the EMA-only MarketPhaseDetector of the strategy     *)

\* An optional float argument: None, or a value.
None == [some |-> FALSE]

Some(v) == [some |-> TRUE, v |-> v]

\* A float division by zero raises.
ZeroDivisionError == [raised |-> "ZeroDivisionError"]

\* abs(close - ema) / ema > 0.001 for prices kept to four decimals, none of
\* them exactly 0.1% away from its EMA; ema is not 0.
AwayFrom(close, ema) ==
    IF ema > 0 THEN Abs(close - ema) * 1000 > ema ELSE FALSE

\* The "unordered" test the entry checks and the EMA-only detector share:
\* the 13 EMA strictly between the 34 EMA and the 89 EMA.
Between(ema_13, ema_34, ema_89) ==
    \/ (ema_13 < ema_34 /\ ema_13 > ema_89)
    \/ (ema_13 > ema_34 /\ ema_13 < ema_89)

check_short_entry(close, ema_13, ema_34, ema_89, psar, macd_line, signal_line) ==
    IF Between(ema_13, ema_34, ema_89) THEN FALSE
    ELSE IF ema_34 = 0 THEN ZeroDivisionError
    ELSE IF AwayFrom(close, ema_34) THEN FALSE
    ELSE IF close >= ema_13 THEN FALSE
    ELSE IF psar <= close THEN FALSE
    ELSE IF macd_line.some /\ signal_line.some /\ macd_line.v >= signal_line.v
    THEN FALSE
    ELSE TRUE

\* The EMA-only detect_phase taking an EMA that has not fallen as confirming
\* the trend.
market_phase_detect_phase_not_falling(ema_13, ema_34, ema_89, prev_ema_13, prev_ema_34, prev_ema_89) ==
    IF Between(ema_13, ema_34, ema_89) THEN "unordered"
    ELSE IF ema_13 > ema_89 /\ ema_13 > ema_34
    THEN IF /\ prev_ema_13.some /\ prev_ema_34.some /\ prev_ema_89.some
            /\ ema_13 >= prev_ema_13.v
            /\ ema_34 >= prev_ema_34.v
            /\ ema_89 >= prev_ema_89.v
         THEN "trending"
         ELSE "emerging"
    ELSE "unordered"

\* strategy.market_phase.MarketPhaseDetector.detect_phase
market_phase_detect_phase(ema_13, ema_34, ema_89, prev_ema_13, prev_ema_34, prev_ema_89) ==
    IF Between(ema_13, ema_34, ema_89) THEN "unordered"
    ELSE IF ema_13 > ema_89 /\ ema_13 > ema_34
    THEN IF /\ prev_ema_13.some /\ prev_ema_34.some /\ prev_ema_89.some
            /\ ema_13 > prev_ema_13.v
            /\ ema_34 > prev_ema_34.v
            /\ ema_89 > prev_ema_89.v
         THEN "trending"
         ELSE "emerging"
    ELSE "unordered"

---------------------------------------------------------------------------
(* The input frames                                                        *)

Frame(close) ==
    [rows |-> Len(close), has_close |-> TRUE, close |-> close, cols |-> NoCols]

\* A frame of n rows with no close column (it has other columns).
NoCloseFrame(n) ==
    [rows |-> n, has_close |-> FALSE, close |-> <<>>, cols |-> NoCols]

\* No frame at all (Python's None).
NoFrame == [none |-> TRUE]

\* The first close of every generated series: 100.0.
Base == 100 * Scale

\* The closes that start at Base and move by the given steps.
RECURSIVE WalkFrom(_, _)
WalkFrom(c, steps) ==
    IF steps = <<>> THEN <<Fin(c)>>
    ELSE <<Fin(c)>> \o WalkFrom(c + Head(steps), Tail(steps))

Walk(steps) == WalkFrom(Base, steps)

\* n closes rising by step per bar from Base.
Ramp(step, n) == [i \in 1..n |-> Fin(Base + (i - 1) * step)]

\* The moves of a generated series: -2.0, +0.4 and +5.0 per bar.
Steps == {0 - 2 * Scale, Dec(4, 10), 5 * Scale}

MaxSteps == 4

RampBars == 50

RampSteps == {0, Dec(4, 10), Dec(5, 10), Dec(6, 10)}

StepSeqs == UNION {[1..n -> Steps] : n \in 0..MaxSteps}

\* A series as it is, or followed by one bar whose close is missing or
\* infinite.
Tails == {<<>>, <<NaN>>, <<PInf>>}

\* Stale EMA columns left in a frame by its caller: every value is Base.
WithStaleEmas(df) ==
    [df EXCEPT !.cols =
        [p \in EmaCols(DefaultConfig) |-> [i \in 1..df.rows |-> Fin(Base)]]]

WalkFrames == {Frame(Walk(s) \o t) : s \in StepSeqs, t \in Tails}

RampFrames == {Frame(Ramp(s, RampBars)) : s \in RampSteps}

MissingFrames ==
    {Frame([i \in 1..n |-> NaN]) : n \in 1..(MaxSteps + 1)}
    \cup {Frame(<<NaN>> \o Walk(s)) : s \in [1..MaxSteps -> {Dec(4, 10)}]}

InvalidFrames == {Frame(<<>>), NoCloseFrame(0), NoCloseFrame(1)}

\* A rising series with one close missing shortly before its end.
GapFrames ==
    {Frame([Ramp(s, RampBars) EXCEPT ![RampBars - 3] = NaN]) : s \in RampSteps}

\* Constant series: 1, 2, 5, 6 and 100 bars at 100.0 or at 50.0.
FlatFrames ==
    {Frame([i \in 1..n |-> Fin(v)]) :
        n \in {1, 2, SlopeWindow, SlopeWindow + 1, 100},
        v \in {Base, 50 * Scale}}

\* 100 bars rising by 0.5 per bar from 100.0.
TrendScenario == Ramp(Dec(5, 10), 100)

\* test_pullback_phase without its noise: 70 bars rising by 0.5 to the peak
\* 135.0, 15 bars falling in a line from the peak by i/15 of 38.2% of the
\* rise, 15 bars i * 0.1 above the last of them.
PullbackTestScenario ==
    LET peak == Base + 70 * Dec(5, 10)
        retracement == Rdiv((peak - Base) * 382, 1000)
        current(i) == peak - Rdiv(retracement * i, 15)
    IN  [i \in 1..70 |-> Fin(Base + i * Dec(5, 10))]
        \o [i \in 1..15 |-> Fin(current(i - 1))]
        \o [i \in 1..15 |-> Fin(current(14) + (i - 1) * Dec(1, 10))]

\* The same from 100.0, every bar of the retracement and of the drift a
\* step away from the bar before it.
PullbackScenario ==
    LET peak == Base + 69 * Dec(5, 10)
        retracement == Rdiv((peak - Base) * 382, 1000)
    IN  Ramp(Dec(5, 10), 70)
        \o [i \in 1..15 |-> Fin(peak - Rdiv(retracement * i, 15))]
        \o [i \in 1..15 |-> Fin(peak - retracement + i * Dec(1, 10))]

\* 60 flat bars at 100.0, then 20 bars whose increment grows in a line from
\* 0.2 to 0.6.
EmergingScenario ==
    [i \in 1..80 |->
        Fin(Base + SumSeq([j \in 1..(i - 60) |->
                              Dec(2, 10) + Rdiv(Dec(4, 10) * (j - 1), 19)]))]

\* _generate_base_movement without its noise: the first close and bars more
\* closes at 100.0.
BaseMovement(bars) == [i \in 1..(bars + 1) |-> Fin(Base)]

\* test_whipsaw_market: ten cycles of five bars up by 0.5 and five bars down
\* by 0.5, the first close 100.5.
WhipsawScenario ==
    [i \in 1..100 |->
        LET k == ((i - 1) % 10) + 1
        IN  Fin(Base + (IF k <= 5 THEN k ELSE 10 - k) * Dec(5, 10))]

\* test_failed_emerging_phase: the base, 20 bars up by 0.25, 20 bars down by
\* 0.15.
FailedEmergingScenario ==
    BaseMovement(60)
    \o [i \in 1..20 |-> Fin(Base + i * Dec(25, 100))]
    \o [i \in 1..20 |-> Fin(Base + 20 * Dec(25, 100) - i * Dec(15, 100))]

\* test_deep_pullback: the base, 30 bars up by 0.2 + 0.02, 25 bars that give
\* back 40% of the rise in equal steps.
DeepPullbackScenario ==
    LET top == Base + 30 * Dec(22, 100)
        trend_height == top - Base
    IN  BaseMovement(100)
        \o [i \in 1..30 |-> Fin(Base + i * Dec(22, 100))]
        \o [i \in 1..25 |-> Fin(top - Rdiv(trend_height * 4 * i, 250))]

\* test_strong_emerging_borderline_trending: the base, then 20 bars whose
\* increment is 0.35 + 0.015 * i for i = 0..19.
StrongEmergingScenario ==
    BaseMovement(100)
    \o [n \in 1..20 |->
           Fin(Base + n * Dec(35, 100) + Dec(15, 1000) * ((n * (n - 1)) \div 2))]

\* The pullback cut off four bars into its retracement: the close has
\* fallen between the fast and the medium EMA and is still falling.
FallingRetracement == SubSeq(PullbackScenario, 1, 74)

\* The scenario series, and the uptrends the pullbacks begin with.
ScenarioSeries ==
    {TrendScenario, PullbackTestScenario, PullbackScenario, EmergingScenario,
     SubSeq(PullbackTestScenario, 1, 70), SubSeq(PullbackScenario, 1, 70),
     WhipsawScenario, FailedEmergingScenario, DeepPullbackScenario,
     StrongEmergingScenario, FallingRetracement}

\* Every frame a caller may hand to detect_phase.
Frames ==
    WalkFrames \cup RampFrames \cup MissingFrames \cup InvalidFrames
    \cup GapFrames \cup FlatFrames \cup {Frame(c) : c \in ScenarioSeries}
    \cup {WithStaleEmas(f) : f \in RampFrames}

\* The frames of the detector's life cycle: a trend, a pullback, an
\* emerging move, a single bar and an empty frame.
ScenarioFrames ==
    {Frame(Walk(<<5 * Scale, 5 * Scale, 5 * Scale, 5 * Scale>>)),
     Frame(Walk(<<5 * Scale, Dec(4, 10), 0 - 2 * Scale, 0 - 2 * Scale>>)),
     Frame(Walk(<<Dec(4, 10), 5 * Scale, 0 - 2 * Scale, 0 - 2 * Scale>>)),
     Frame(Walk(<<>>)),
     Frame(<<>>)}

\* The reference-index series a caller may attach: a rising and a falling
\* index.
IndexFrames ==
    {Frame(Walk(<<5 * Scale, 5 * Scale, 5 * Scale, 5 * Scale>>)),
     Frame(Walk(<<0 - 2 * Scale, 0 - 2 * Scale, 0 - 2 * Scale, 0 - 2 * Scale>>))}

---------------------------------------------------------------------------
(* The state                                                               *)

VARIABLES
    config,             \* the detector's PhaseDetectionConfig
    index_data,         \* the cached reference-index frame, or NoFrame
    last_index_update,  \* when it was cached, or Never
    now,                \* the clock pd.Timestamp.now() reads
    df,                 \* the callers' price frame
    pc,                 \* per caller: "idle", "evaluating" or "done"
    arg,                \* per caller: the frame its call was handed
    result,             \* per caller: what its call returned
    disturbed,          \* per caller: set_index or update_index_data ran
                        \* since its call began
    risk_manager,       \* the RiskManager of the strategy
    returned,           \* the latest call of a strategy function: its
                        \* name, its arguments and the value it returned
    latest_bars,        \* per symbol: the bars the data manager hands out
    latest_states,      \* MarketStateManager._latest_states, per symbol
    phase_change_callbacks,  \* MarketStateManager._phase_change_callbacks
    notified,           \* the calls made to phase-change callbacks
    ws,                 \* AlpacaDataManager.ws: "None" or the app
    sock,               \* the connection of the latest WebSocketApp
    ws_running,         \* AlpacaDataManager.ws_running
    ws_thread,          \* where the WebSocket thread is, "None" before it
    attempt,            \* the attempt of its retry loop
    subscribed_symbols, \* AlpacaDataManager.subscribed_symbols
    main_pc             \* where the event loop is in stop_streaming

detector_vars ==
    <<config, index_data, last_index_update, now, df, pc, arg, result,
      disturbed>>

strategy_vars == <<risk_manager, returned>>

manager_vars ==
    <<latest_bars, latest_states, phase_change_callbacks, notified>>

stream_vars ==
    <<ws, sock, ws_running, ws_thread, attempt, subscribed_symbols, main_pc>>

\* The objects around the detector.
collaborators == <<strategy_vars, manager_vars, stream_vars>>

vars == <<detector_vars, collaborators>>

Callers == {"a", "b"}

MaxTime == 1

\* last_index_update = None
Never == 0 - 1

\* No call has returned.
NoResult == [phase |-> "none", metrics |-> [none |-> TRUE]]

\* The detector object.
Self ==
    [config |-> config, index_data |-> index_data,
     last_index_update |-> last_index_update]

\* MarketPhaseDetector(config): the state after construction.  The config
\* is stored as it is given.
ConstructedWith(cfg) ==
    /\ config = cfg
    /\ index_data = NoFrame
    /\ last_index_update = Never
    /\ now = 0
    /\ pc = [t \in Callers |-> "idle"]
    /\ arg = [t \in Callers |-> NoFrame]
    /\ result = [t \in Callers |-> NoResult]
    /\ disturbed = [t \in Callers |-> FALSE]

\* MarketPhaseDetector(): the state after construction.
Constructed == ConstructedWith(DefaultConfig)

\* No call of a strategy function has been made.
NoCall == [op |-> "none"]

\* The risk manager of the strategy's tests: 100000 at 2% per trade.
DefaultRiskManager == RiskManager(Q(100000, 1), Q(2, 100), 5)

\* The symbols the bot follows.
Symbols == {"SPY", "QQQ"}

\* _latest_states has no entry for the symbol.
NoState == [none |-> TRUE]

\* MarketStateManager(data_manager): no state stored, no callback
\* registered; the data manager has no bars yet.
ManagerConstructed ==
    /\ latest_bars = [s \in Symbols |-> NoFrame]
    /\ latest_states = [s \in Symbols |-> NoState]
    /\ phase_change_callbacks = <<>>
    /\ notified = <<>>

\* AlpacaDataManager(...): no WebSocketApp, no thread, not running.
DataManagerConstructed ==
    /\ ws = "None"
    /\ sock = "none"
    /\ ws_running = FALSE
    /\ ws_thread = "None"
    /\ attempt = 0
    /\ subscribed_symbols = {}
    /\ main_pc = "idle"

\* The objects around the detector as they are while it is used alone.
Apart ==
    /\ risk_manager = DefaultRiskManager
    /\ returned = NoCall
    /\ ManagerConstructed
    /\ DataManagerConstructed

Init == Constructed /\ Apart /\ df \in ScenarioFrames

InitPure == Constructed /\ Apart /\ df \in Frames

\* Every call in progress or returned has seen a detector operation.
Disturb == [t \in Callers |-> disturbed[t] \/ pc[t] # "idle"]

\* set_index that changes the config and leaves the cached series alone.
set_index_keeping_cache(index) ==
    /\ config' = [config EXCEPT !.index = index]
    /\ disturbed' = Disturb
    /\ UNCHANGED collaborators
    /\ UNCHANGED <<index_data, last_index_update, now, df, pc, arg, result>>

set_index(index) ==
    /\ config' = [config EXCEPT !.index = index]
    /\ index_data' = NoFrame
    /\ disturbed' = Disturb
    /\ UNCHANGED collaborators
    /\ UNCHANGED <<last_index_update, now, df, pc, arg, result>>

update_index_data(data) ==
    /\ index_data' = data
    /\ last_index_update' = now
    /\ disturbed' = Disturb
    /\ UNCHANGED collaborators
    /\ UNCHANGED <<config, now, df, pc, arg, result>>

\* Time passes.
Tick ==
    /\ now < MaxTime
    /\ now' = now + 1
    /\ UNCHANGED collaborators
    /\ UNCHANGED <<config, index_data, last_index_update, df, pc, arg,
                   result, disturbed>>

\* Caller t calls detect_phase(df): the call is bound to the frame.
Begin(t) ==
    /\ pc[t] = "idle"
    /\ pc' = [pc EXCEPT ![t] = "evaluating"]
    /\ arg' = [arg EXCEPT ![t] = df]
    /\ disturbed' = [disturbed EXCEPT ![t] = FALSE]
    /\ UNCHANGED collaborators
    /\ UNCHANGED <<config, index_data, last_index_update, now, df, result>>

\* The call of caller t returns, the EMA columns written into the caller's
\* frame itself: calculate_emas working on data instead of data.copy().
Finish_in_place(t) ==
    /\ pc[t] = "evaluating"
    /\ pc' = [pc EXCEPT ![t] = "done"]
    /\ result' = [result EXCEPT ![t] = detect_phase(Self, arg[t])]
    /\ df' = IF Empty(arg[t]) \/ ~arg[t].has_close THEN df
             ELSE calculate_emas(Self, arg[t])
    /\ UNCHANGED collaborators
    /\ UNCHANGED <<config, index_data, last_index_update, now, arg,
                   disturbed>>

\* The call of caller t returns, its metrics stamped with the time of the
\* evaluation.
Finish_stamped(t) ==
    /\ pc[t] = "evaluating"
    /\ pc' = [pc EXCEPT ![t] = "done"]
    /\ result' = [result EXCEPT ![t] =
                      [phase |-> detect_phase(Self, arg[t]).phase,
                       metrics |-> [values |-> detect_phase(Self, arg[t]).metrics,
                                    timestamp |-> now]]]
    /\ UNCHANGED collaborators
    /\ UNCHANGED <<config, index_data, last_index_update, now, df, arg,
                   disturbed>>

\* The call of caller t returns.
Finish(t) ==
    /\ pc[t] = "evaluating"
    /\ pc' = [pc EXCEPT ![t] = "done"]
    /\ result' = [result EXCEPT ![t] = detect_phase(Self, arg[t])]
    /\ UNCHANGED collaborators
    /\ UNCHANGED <<config, index_data, last_index_update, now, df, arg,
                   disturbed>>

\* Caller t drops what its call returned.
Release(t) ==
    /\ pc[t] = "done"
    /\ pc' = [pc EXCEPT ![t] = "idle"]
    /\ arg' = [arg EXCEPT ![t] = NoFrame]
    /\ result' = [result EXCEPT ![t] = NoResult]
    /\ disturbed' = [disturbed EXCEPT ![t] = FALSE]
    /\ UNCHANGED collaborators
    /\ UNCHANGED <<config, index_data, last_index_update, now, df>>

Next ==
    \/ \E index \in MarketIndex : set_index(index)
    \/ \E data \in IndexFrames : update_index_data(data)
    \/ Tick
    \/ \E t \in Callers : Begin(t)
    \/ \E t \in Callers : Finish(t)
    \/ \E t \in Callers : Release(t)

Spec == Init /\ [][Next]_vars

\* detect_phase alone, applied to every frame.
NextPure ==
    \/ \E t \in Callers : Begin(t)
    \/ \E t \in Callers : Finish(t)

SpecPure == InitPure /\ [][NextPure]_vars

---------------------------------------------------------------------------
(* The strategy functions                                                  *)

\* The risk managers a strategy is run with.
RiskManagers ==
    {DefaultRiskManager, RiskManager(Q(5000, 1), Q(1, 100), 3)}

\* Entry and stop prices, and pip values: 0.0001, 0.01 and 0.
Prices == {Q(100, 1), Q(99, 1), Q(11050, 10000), Q(11030, 10000)}

PipValues == {Q(1, 10000), Q(1, 100), Q(0, 1)}

\* A call of risk_manager.calculate_position_size.
CallPositionSize(entry_price, stop_loss_price, pip_value) ==
    /\ returned' =
           [op |-> "calculate_position_size",
            entry_price |-> entry_price, stop_loss_price |-> stop_loss_price,
            pip_value |-> pip_value,
            value |-> calculate_position_size(risk_manager, entry_price,
                                              stop_loss_price, pip_value)]
    /\ UNCHANGED <<detector_vars, risk_manager, manager_vars, stream_vars>>

\* The closes, EMAs and PSARs of the signal tests and values around them.
SignalCloses == {45 * Scale, 50 * Scale}

Ema13s == {40 * Scale, 46 * Scale, 52 * Scale}

Ema34s == {45 * Scale, 48 * Scale}

Ema89s == {44 * Scale, 50 * Scale}

Psars == {43 * Scale, 47 * Scale}

MacdLines == {None, Some(0 - Dec(5, 10)), Some(Dec(5, 10))}

SignalLines == {None, Some(0 - Dec(3, 10))}

\* A call of SignalGenerator.check_short_entry.
CallShortEntry(close, ema_13, ema_34, ema_89, psar, macd_line, signal_line) ==
    /\ returned' =
           [op |-> "check_short_entry", close |-> close, ema_13 |-> ema_13,
            ema_34 |-> ema_34, ema_89 |-> ema_89, psar |-> psar,
            macd_line |-> macd_line, signal_line |-> signal_line,
            value |-> check_short_entry(close, ema_13, ema_34, ema_89, psar,
                                        macd_line, signal_line)]
    /\ UNCHANGED <<detector_vars, risk_manager, manager_vars, stream_vars>>

\* The EMAs of the phase tests, and the previous values a caller may supply.
Emas == {40 * Scale, 50 * Scale, 60 * Scale}

PrevEmas(ema) == {None, Some(ema - Scale), Some(ema)}

\* A call of the EMA-only detector's detect_phase.
CallDetectPhase(ema_13, ema_34, ema_89, prev_ema_13, prev_ema_34, prev_ema_89) ==
    /\ returned' =
           [op |-> "detect_phase", ema_13 |-> ema_13, ema_34 |-> ema_34,
            ema_89 |-> ema_89, prev_ema_13 |-> prev_ema_13,
            prev_ema_34 |-> prev_ema_34, prev_ema_89 |-> prev_ema_89,
            value |-> market_phase_detect_phase(ema_13, ema_34, ema_89,
                          prev_ema_13, prev_ema_34, prev_ema_89)]
    /\ UNCHANGED <<detector_vars, risk_manager, manager_vars, stream_vars>>

InitStrategy ==
    /\ Constructed
    /\ df = Frame(<<>>)
    /\ risk_manager \in RiskManagers
    /\ returned = NoCall
    /\ ManagerConstructed
    /\ DataManagerConstructed

NextStrategy ==
    \/ \E entry_price \in Prices, stop_loss_price \in Prices, pip_value \in PipValues :
           CallPositionSize(entry_price, stop_loss_price, pip_value)
    \/ \E close \in SignalCloses, ema_13 \in Ema13s, ema_34 \in Ema34s,
          ema_89 \in Ema89s, psar \in Psars, macd_line \in MacdLines,
          signal_line \in SignalLines :
           CallShortEntry(close, ema_13, ema_34, ema_89, psar, macd_line, signal_line)
    \/ \E ema_13 \in Emas, ema_34 \in Emas, ema_89 \in Emas :
           \E prev_ema_13 \in PrevEmas(ema_13), prev_ema_34 \in PrevEmas(ema_34),
              prev_ema_89 \in PrevEmas(ema_89) :
               CallDetectPhase(ema_13, ema_34, ema_89,
                               prev_ema_13, prev_ema_34, prev_ema_89)

\* The strategy's functions applied to their inputs, call after call.
SpecStrategy == InitStrategy /\ [][NextStrategy]_vars

---------------------------------------------------------------------------
(* MarketStateManager                                                      *)

\* The detector the manager constructs for itself: MarketPhaseDetector(
\* config = PhaseDetectionConfig()).
ManagerDetector ==
    [config |-> DefaultConfig, index_data |-> NoFrame,
     last_index_update |-> Never]

\* The entries of the metrics mapping _handle_market_update reads to build
\* a MarketMetrics.
MarketMetricsKeys ==
    {"ema_5", "ema_7", "ema_9", "ema_11", "ema_13", "ema_34", "ema_89",
     "psar", "macd", "macd_signal", "macd_hist"}

\* The bars an update carries before _handle_market_update goes on.
EnoughBars == 90

\* MarketMetrics(...) built from what detect_phase returned.
MarketMetrics(symbol, phase, metrics) ==
    [phase |-> phase, symbol |-> symbol,
     candle_size |-> DefaultConfig.candle_size,
     values |-> [k \in MarketMetricsKeys |-> metrics[k]]]

\* The frames a market update may leave with the data manager: a trend, a
\* whipsaw and a pullback of 100 bars, 95 rows without a close column, an
\* emerging move of 80 bars, an empty frame and no frame.
UpdateFrames ==
    {Frame(TrendScenario), Frame(WhipsawScenario), Frame(PullbackTestScenario),
     NoCloseFrame(95), Frame(EmergingScenario), Frame(<<>>), NoFrame}

\* len(latest_bars)
Bars(frame) == IF frame = NoFrame THEN 0 ELSE frame.rows

\* The callbacks a client may register, and how many it registers at most.
Callbacks == {"alert", "log"}

MaxCallbacks == 2

\* The most calls to callbacks the model follows.
MaxNotified == 4

\* register_phase_change_callback(callback)
register_phase_change_callback(callback) ==
    /\ Len(phase_change_callbacks) < MaxCallbacks
    /\ phase_change_callbacks' = Append(phase_change_callbacks, callback)
    /\ UNCHANGED <<detector_vars, strategy_vars, latest_bars, latest_states,
                   notified, stream_vars>>

\* _handle_market_update from the MarketMetrics(...) call on, detect_phase
\* having returned r: an exception (detect_phase raising, an entry missing
\* from the metrics) ends the handler with nothing changed but a log line;
\* otherwise the state is stored and the callbacks are called if the phase
\* changed.
StoreAndNotify(symbol, r) ==
    IF Raised(r) \/ ~(MarketMetricsKeys \subseteq DOMAIN r.metrics)
    THEN UNCHANGED <<latest_states, notified>>
    ELSE LET current_metrics == MarketMetrics(symbol, r.phase, r.metrics)
             old_metrics == latest_states[symbol]
             phase_changed ==
                 \/ old_metrics = NoState
                 \/ old_metrics.phase # r.phase
         IN  /\ latest_states' =
                    [latest_states EXCEPT ![symbol] = current_metrics]
             /\ notified' =
                    IF phase_changed
                    THEN notified \o
                         [i \in 1..Len(phase_change_callbacks) |->
                             <<phase_change_callbacks[i], symbol, r.phase>>]
                    ELSE notified

\* A market update for symbol arrives: the data manager holds bars for it
\* and _handle_market_update runs.
handle_market_update(symbol, bars) ==
    /\ Len(notified) + Len(phase_change_callbacks) <= MaxNotified
    /\ latest_bars' = [latest_bars EXCEPT ![symbol] = bars]
    /\ IF bars = NoFrame \/ Bars(bars) < EnoughBars
       THEN UNCHANGED <<latest_states, notified>>
       ELSE StoreAndNotify(symbol, detect_phase(ManagerDetector, bars))
    /\ UNCHANGED <<detector_vars, strategy_vars, phase_change_callbacks,
                   stream_vars>>

\* get_current_state(symbol)
get_current_state(symbol) == latest_states[symbol]

InitManager ==
    /\ Constructed
    /\ df = Frame(<<>>)
    /\ risk_manager = DefaultRiskManager
    /\ returned = NoCall
    /\ ManagerConstructed
    /\ DataManagerConstructed

NextManager ==
    \/ \E callback \in Callbacks : register_phase_change_callback(callback)
    \/ \E symbol \in Symbols, bars \in UpdateFrames :
           handle_market_update(symbol, bars)

\* The state manager under market updates.
SpecManager == InitManager /\ [][NextManager]_vars

---------------------------------------------------------------------------
(* AlpacaDataManager: the WebSocket thread and the event loop              *)

max_retries == 5

\* ws_thread.is_alive()
ThreadAlive == ws_thread \notin {"None", "exited"}

\* All of the data manager but the named variables stays as it is.
StreamKeeps(changed) ==
    /\ "ws" \in changed \/ ws' = ws
    /\ "sock" \in changed \/ sock' = sock
    /\ "ws_running" \in changed \/ ws_running' = ws_running
    /\ "ws_thread" \in changed \/ ws_thread' = ws_thread
    /\ "attempt" \in changed \/ attempt' = attempt
    /\ "subscribed_symbols" \in changed
           \/ subscribed_symbols' = subscribed_symbols
    /\ "main_pc" \in changed \/ main_pc' = main_pc
    /\ UNCHANGED <<detector_vars, strategy_vars, manager_vars>>

\* The event loop is in no call of the data manager.
MainFree == main_pc \in {"idle", "stopped"}

\* start_streaming: nothing if the thread is alive; otherwise ws_running is
\* set and a thread is started on _run_websocket.
start_streaming ==
    /\ MainFree
    /\ main_pc' = "idle"
    /\ IF ThreadAlive
       THEN StreamKeeps({"main_pc"})
       ELSE /\ ws_running' = TRUE
            /\ ws_thread' = "while"
            /\ attempt' = 0
            /\ StreamKeeps({"main_pc", "ws_running", "ws_thread", "attempt"})

\* subscribe_to_symbol(symbol)
subscribe_to_symbol(symbol) ==
    /\ MainFree
    /\ main_pc' = "idle"
    /\ IF ws = "None" \/ ~ws_running \/ symbol \in subscribed_symbols
       THEN StreamKeeps({"main_pc"})
       ELSE /\ subscribed_symbols' = subscribed_symbols \cup {symbol}
            /\ StreamKeeps({"main_pc", "subscribed_symbols"})

\* stop_streaming, "if self.ws:": with no WebSocketApp the call logs and
\* returns.
StopCheck ==
    /\ MainFree
    /\ main_pc' = IF ws # "None" THEN "stop_send" ELSE "stopped"
    /\ StreamKeeps({"main_pc"})

\* stop_streaming, the unsubscribe message: ws.send raises on an app that
\* is not connected, and the except clause logs and ends the call.
StopSend ==
    /\ main_pc = "stop_send"
    /\ main_pc' = IF subscribed_symbols # {} /\ sock # "open"
                  THEN "stopped" ELSE "stop_close"
    /\ StreamKeeps({"main_pc"})

\* stop_streaming, self.ws.close(): an open connection is closed.
StopClose ==
    /\ main_pc = "stop_close"
    /\ main_pc' = "stop_unset"
    /\ sock' = IF sock = "open" THEN "closed" ELSE sock
    /\ StreamKeeps({"main_pc", "sock"})

\* stop_streaming, self.ws = None and subscribed_symbols.clear()
StopUnset ==
    /\ main_pc = "stop_unset"
    /\ main_pc' = "stop_flag"
    /\ ws' = "None"
    /\ subscribed_symbols' = {}
    /\ StreamKeeps({"main_pc", "ws", "subscribed_symbols"})

\* stop_streaming, self.ws_running = False
StopFlag ==
    /\ main_pc = "stop_flag"
    /\ main_pc' = IF ThreadAlive THEN "stop_join" ELSE "stopped"
    /\ ws_running' = FALSE
    /\ StreamKeeps({"main_pc", "ws_running"})

\* stop_streaming, ws_thread.join(timeout=5): the thread has ended or the
\* five seconds have passed.
StopJoin ==
    /\ main_pc = "stop_join"
    /\ main_pc' = "stopped"
    /\ StreamKeeps({"main_pc"})

\* _run_websocket, "while self.ws_running:"
ThreadWhile ==
    /\ ws_thread = "while"
    /\ IF ws_running
       THEN /\ ws_thread' = "for"
            /\ attempt' = 0
            /\ StreamKeeps({"ws_thread", "attempt"})
       ELSE /\ ws_thread' = "exited"
            /\ StreamKeeps({"ws_thread"})

\* _run_websocket, one pass of "for attempt in range(max_retries)" up to
\* self.ws = websocket.WebSocketApp(...), after the backoff sleep.
ThreadAttempt ==
    /\ ws_thread = "for"
    /\ IF attempt >= max_retries
       THEN /\ ws_thread' = "while"
            /\ StreamKeeps({"ws_thread"})
       ELSE /\ ws' = "app"
            /\ sock' = "none"
            /\ ws_thread' = "run"
            /\ StreamKeeps({"ws", "sock", "ws_thread"})

\* _run_websocket, self.ws.run_forever(...): a connection attempt.
ThreadConnect ==
    /\ ws_thread = "run"
    /\ ws # "None"
    /\ sock' = "open"
    /\ ws_thread' = "connected"
    /\ StreamKeeps({"sock", "ws_thread"})

\* _run_websocket, self.ws.run_forever(...) with self.ws set to None in
\* between: AttributeError, handled by the except clause of the loop.
ThreadRaise ==
    /\ ws_thread = "run"
    /\ ws = "None"
    /\ IF attempt < max_retries - 1 /\ ws_running
       THEN /\ attempt' = attempt + 1
            /\ ws_thread' = "for"
            /\ StreamKeeps({"attempt", "ws_thread"})
       ELSE /\ ws_running' = FALSE
            /\ ws_thread' = "while"
            /\ StreamKeeps({"ws_running", "ws_thread"})

\* run_forever returns: the connection was refused, dropped or closed by
\* stop_streaming; its teardown calls on_close, which clears ws_running.
ThreadReturn ==
    /\ ws_thread = "connected"
    /\ sock' = "closed"
    /\ ws_running' = FALSE
    /\ ws_thread' = "after"
    /\ StreamKeeps({"sock", "ws_running", "ws_thread"})

\* _run_websocket after run_forever: reconnect if ws_running, else break.
ThreadAfter ==
    /\ ws_thread = "after"
    /\ IF ws_running
       THEN /\ attempt' = attempt + 1
            /\ ws_thread' = "for"
            /\ StreamKeeps({"attempt", "ws_thread"})
       ELSE /\ ws_thread' = "while"
            /\ StreamKeeps({"ws_thread"})

InitStream ==
    /\ Constructed
    /\ df = Frame(<<>>)
    /\ risk_manager = DefaultRiskManager
    /\ returned = NoCall
    /\ ManagerConstructed
    /\ DataManagerConstructed

NextStream ==
    \/ start_streaming
    \/ \E symbol \in Symbols : subscribe_to_symbol(symbol)
    \/ StopCheck
    \/ StopSend
    \/ StopClose
    \/ StopUnset
    \/ StopFlag
    \/ StopJoin
    \/ ThreadWhile
    \/ ThreadAttempt
    \/ ThreadConnect
    \/ ThreadRaise
    \/ ThreadReturn
    \/ ThreadAfter

\* The data manager's event loop and its WebSocket thread, interleaved.
SpecStream == InitStream /\ [][NextStream]_vars

\* The configs a caller may construct: the default, shorter periods, a fast
\* period of 0 and a negative slow period.  The dataclass takes them all.
Configs ==
    {DefaultConfig,
     [DefaultConfig EXCEPT !.fast_ema = 5, !.medium_ema = 7, !.slow_ema = 9],
     [DefaultConfig EXCEPT !.fast_ema = 0],
     [DefaultConfig EXCEPT !.slow_ema = 0 - 89]}

\* A config whose three periods ewm accepts.
ValidConfig(cfg) == \A p \in EmaCols(cfg) : ValidSpan(p)

\* The frames handed to a detector constructed with a config of its
\* caller's.
ConfigFrames == RampFrames \cup FlatFrames \cup InvalidFrames

InitConfig ==
    /\ \E cfg \in Configs : ConstructedWith(cfg)
    /\ Apart
    /\ df \in ConfigFrames

\* detect_phase on a detector constructed with any config.
SpecConfig == InitConfig /\ [][NextPure]_vars

---------------------------------------------------------------------------
(* The claims                                                              *)

\* Caller t's call has returned.
Done(t) == pc[t] = "done"

\* Caller t's call was handed a frame that has rows and a close column.
Valid(t) == Done(t) /\ ~Empty(arg[t]) /\ arg[t].has_close

\* The frame of caller t's call with its EMAs computed afresh: what the
\* predicates are evaluated on.
Fresh(t) == calculate_emas(Self, arg[t])

Trending(t) == detect_trending_phase(Self, Fresh(t))
Pullback(t) == detect_pullback(Self, Fresh(t))
Emerging(t) == detect_emerging_phase(Self, Fresh(t))
Unordered(t) == detect_unordered_phase(Self, Fresh(t))

\* C1: on a frame with rows and a close column detect_phase returns the
\* first phase whose predicate holds in the order trending, pullback,
\* emerging, unordered: TRENDING whenever trending holds, PULLBACK whenever
\* trending fails and pullback holds, EMERGING only when both fail and
\* emerging holds, UNORDERED otherwise.
C1_PriorityOrder ==
    \A t \in Callers :
        Valid(t) =>
            LET trending == Trending(t)
                pullback == Pullback(t)
                emerging == Emerging(t)
            IN  /\ trending => result[t].phase = "trending"
                /\ (~trending /\ pullback) => result[t].phase = "pullback"
                /\ result[t].phase = "emerging" <=>
                       (~trending /\ ~pullback /\ emerging)
                /\ (~trending /\ ~pullback /\ ~emerging) =>
                       result[t].phase = "unordered"

\* A call on a series for which both the trending and the emerging predicate
\* hold has returned TRENDING.
C1_Witness ==
    \E t \in Callers :
        Valid(t) /\ Trending(t) /\ Emerging(t) /\ result[t].phase = "trending"

\* C2: every call returns one of the four MarketPhase values, and UNORDERED
\* when none of the four predicates matches.
C2_FourPhases ==
    \A t \in Callers :
        /\ Done(t) => result[t].phase \in MarketPhase
        /\ (Valid(t) /\ ~Trending(t) /\ ~Pullback(t) /\ ~Emerging(t)
                /\ ~Unordered(t)) => result[t].phase = "unordered"

\* A call on a series that none of the four predicates matches has returned
\* UNORDERED.
C2_Witness ==
    \E t \in Callers :
        /\ Valid(t) /\ ~Trending(t) /\ ~Pullback(t) /\ ~Emerging(t)
        /\ ~Unordered(t)
        /\ result[t].phase = "unordered"

\* C3: a call on a frame that is empty or has no close column returns
\* UNORDERED with metrics that carry an error marker, and does not raise.
C3_DegenerateInput ==
    \A t \in Callers :
        (Done(t) /\ (Empty(arg[t]) \/ ~arg[t].has_close)) =>
            /\ result[t].phase = "unordered"
            /\ "error" \in DOMAIN result[t].metrics
            /\ result[t].phase # "raised"

\* A call on a frame that has rows but no close column has returned the
\* error marker.
C3_Witness ==
    \E t \in Callers :
        /\ Done(t) /\ ~arg[t].has_close /\ ~Empty(arg[t])
        /\ result[t] = Returned("unordered", [error |-> "Invalid input data"])

\* C4: detect_phase never raises and returns a (phase, metrics) pair for
\* every series with a close column; on a single bar, on closes that are all
\* NaN and on closes that contain an Inf every slope and the momentum read
\* 0.0, the EMA alignment check reads false and the phase is UNORDERED.
C4_FailsClosed ==
    \A t \in Callers :
        /\ (Done(t) /\ arg[t].has_close) => result[t].phase \in MarketPhase
        /\ (Valid(t) /\ (\/ arg[t].rows = 1
                         \/ \A i \in 1..arg[t].rows : IsNaN(arg[t].close[i])
                         \/ \E i \in 1..arg[t].rows : IsInf(arg[t].close[i])))
            => /\ result[t].metrics.fast_slope = 0
               /\ result[t].metrics.medium_slope = 0
               /\ result[t].metrics.slow_slope = 0
               /\ result[t].metrics.price_momentum = 0
               /\ ~check_ema_alignment(result[t].metrics)
               /\ result[t].phase = "unordered"

\* The margin of the predicates: 0.1% of the price.
StatedMargin(m) == XScale(m.close, 1, 1000)

\* price > fast, fast > medium, medium > slow, each within the margin.
StatedAlignment(m) ==
    /\ XGt(m.close, XSub(m.ema_fast, StatedMargin(m)))
    /\ XGt(m.ema_fast, XSub(m.ema_medium, StatedMargin(m)))
    /\ XGt(m.ema_medium, XSub(m.ema_slow, StatedMargin(m)))

\* The eight conditions of the trending predicate, on the returned metrics.
StatedTrending(m) ==
    /\ StatedAlignment(m)
    /\ XGt(XSub(m.ema_fast, m.ema_slow), XScale(m.close, 1, 100))
    /\ m.fast_slope >= Dec(35, 100)
    /\ m.medium_slope >= Dec(35, 100)
    /\ m.slow_slope >= Dec(25, 100)
    /\ m.price_momentum >= Dec(25, 100)

\* C5: the trending predicate is true exactly when the eight conditions
\* hold at the latest bar, and detect_phase returns TRENDING if and only if
\* it is true.
C5_TrendingExactly ==
    \A t \in Callers :
        Valid(t) =>
            /\ Trending(t) <=> StatedTrending(result[t].metrics)
            /\ result[t].phase = "trending" <=> StatedTrending(result[t].metrics)

\* A call has returned TRENDING on metrics that meet the eight conditions,
\* with a slow slope below 0.35.
C5_Witness ==
    \E t \in Callers :
        /\ Valid(t) /\ result[t].phase = "trending"
        /\ StatedTrending(result[t].metrics)
        /\ result[t].metrics.slow_slope < Dec(35, 100)

\* The conditions of the pullback predicate, on the returned metrics: the
\* price between the fast and the medium EMA within the margin, the slow EMA
\* strictly below the medium EMA, fast and medium slope above -0.1, slow
\* slope and momentum above 0.
StatedPullback(m) ==
    /\ \/ /\ XLe(XSub(m.ema_fast, StatedMargin(m)), m.close)
          /\ XLe(m.close, XAdd(m.ema_medium, StatedMargin(m)))
       \/ /\ XLe(XSub(m.ema_medium, StatedMargin(m)), m.close)
          /\ XLe(m.close, XAdd(m.ema_fast, StatedMargin(m)))
    /\ XLt(m.ema_slow, m.ema_medium)
    /\ m.fast_slope > 0 - Dec(1, 10)
    /\ m.medium_slope > 0 - Dec(1, 10)
    /\ m.slow_slope > 0
    /\ m.price_momentum > 0

\* C6: the pullback predicate is true exactly when those conditions hold;
\* it is false whenever the slow EMA is at or above the medium EMA or the
\* momentum is not positive.
C6_PullbackExactly ==
    \A t \in Callers :
        Valid(t) =>
            /\ Pullback(t) <=> StatedPullback(result[t].metrics)
            /\ XLe(result[t].metrics.ema_medium, result[t].metrics.ema_slow)
                   => ~Pullback(t)
            /\ result[t].metrics.price_momentum <= 0 => ~Pullback(t)

\* A call has returned PULLBACK on metrics that meet the conditions.
C6_Witness ==
    \E t \in Callers :
        /\ Valid(t) /\ Pullback(t) /\ result[t].phase = "pullback"
        /\ StatedPullback(result[t].metrics)

\* The conditions of the emerging predicate with the fast slope bounded
\* above by fast_max.
StatedEmerging(m, fast_max) ==
    /\ StatedAlignment(m)
    /\ Dec(25, 100) < m.fast_slope /\ m.fast_slope <= fast_max
    /\ Dec(15, 100) < m.medium_slope /\ m.medium_slope <= Dec(5, 10)
    /\ 0 < m.slow_slope /\ m.slow_slope < Dec(4, 10)
    /\ Dec(2, 10) <= m.price_momentum /\ m.price_momentum <= Dec(8, 10)

\* C7 as stated: the emerging predicate is true only with the alignment,
\* the fast slope in (0.25, 0.35], the medium slope in (0.15, 0.5], the slow
\* slope in (0, 0.4) and the momentum in 0.2 .. 0.8; a fast slope above 0.35
\* makes it false.
C7_EmergingFastBelowTrending ==
    \A t \in Callers :
        Valid(t) =>
            /\ Emerging(t) => StatedEmerging(result[t].metrics, Dec(35, 100))
            /\ result[t].metrics.fast_slope > Dec(35, 100) => ~Emerging(t)

\* C7 as amended: the same with the fast slope in (0.25, 0.75]; a fast slope
\* above 0.75 makes the emerging predicate false.
C7_EmergingBounds ==
    \A t \in Callers :
        Valid(t) =>
            /\ Emerging(t) => StatedEmerging(result[t].metrics, Dec(75, 100))
            /\ result[t].metrics.fast_slope > Dec(75, 100) => ~Emerging(t)

\* A call has returned EMERGING with a fast slope above 0.35.
C7_Witness ==
    \E t \in Callers :
        /\ Valid(t) /\ Emerging(t) /\ result[t].phase = "emerging"
        /\ result[t].metrics.fast_slope > Dec(35, 100)

\* C8 as stated: the emerging and the trending predicate are never both
\* true.
C8_Disjoint ==
    \A t \in Callers : Valid(t) => ~(Emerging(t) /\ Trending(t))

\* C8 as amended: the two predicates are both true only inside the band
\* fast slope in [0.35, 0.75], medium slope in [0.35, 0.5], slow slope in
\* [0.25, 0.4), momentum in [0.25, 0.8], and detect_phase then returns
\* TRENDING; outside the band they are disjoint.
C8_OverlapBand ==
    \A t \in Callers :
        (Valid(t) /\ Emerging(t) /\ Trending(t)) =>
            /\ Dec(35, 100) <= result[t].metrics.fast_slope
            /\ result[t].metrics.fast_slope <= Dec(75, 100)
            /\ Dec(35, 100) <= result[t].metrics.medium_slope
            /\ result[t].metrics.medium_slope <= Dec(5, 10)
            /\ Dec(25, 100) <= result[t].metrics.slow_slope
            /\ result[t].metrics.slow_slope < Dec(4, 10)
            /\ Dec(25, 100) <= result[t].metrics.price_momentum
            /\ result[t].metrics.price_momentum <= Dec(8, 10)
            /\ result[t].phase = "trending"

\* A call has returned on a series inside the band, where both predicates
\* are true.
C8_Witness ==
    \E t \in Callers : Valid(t) /\ Emerging(t) /\ Trending(t)

\* The reference index's own EMA alignment: _check_ema_alignment on the
\* EMAs of the cached index series.
IndexAligned ==
    LET r == Readings(Self, calculate_emas(Self, index_data))
    IN  XGt(r.fast, r.medium) /\ XGt(r.medium, r.slow)

\* The reference index's price-versus-fast-EMA relationship agreeing with a
\* pullback inside an uptrend: the index price holds above its fast EMA.
IndexPriceAboveFast ==
    LET r == Readings(Self, calculate_emas(Self, index_data))
    IN  XGt(r.price, r.fast)

\* C9: with a reference-index series attached by update_index_data,
\* detect_phase returns TRENDING only if the index's own EMA alignment
\* agrees and PULLBACK only if the index's price-versus-fast-EMA
\* relationship agrees; with no index data attached a TRENDING or PULLBACK
\* result is never blocked.
C9_IndexCorroboration ==
    \A t \in Callers :
        (Done(t) /\ ~disturbed[t]) =>
            IF index_data # NoFrame
            THEN /\ result[t].phase = "trending" => IndexAligned
                 /\ result[t].phase = "pullback" => IndexPriceAboveFast
            ELSE Valid(t) =>
                     /\ Trending(t) => result[t].phase = "trending"
                     /\ (~Trending(t) /\ Pullback(t))
                            => result[t].phase = "pullback"

C11_NoSideEffects ==
    [][\A t \in Callers :
          (pc[t] = "evaluating" /\ pc'[t] = "done") =>
              /\ df' = df
              /\ arg'[t] = arg[t]
              /\ config' = config
              /\ index_data' = index_data
              /\ last_index_update' = last_index_update
              /\ result'[t] =
                     detect_phase([config |-> config, index_data |-> NoFrame,
                                   last_index_update |-> Never], arg[t])]_vars

\* A call has returned a phase for the caller's frame although
\* update_index_data cached an index series while it was in progress.
C11_Witness ==
    \E t \in Callers :
        /\ Done(t) /\ disturbed[t] /\ index_data # NoFrame
        /\ last_index_update # Never
        /\ arg[t] = df /\ df.rows > 1 /\ df.cols = NoCols
        /\ result[t].phase \in {"trending", "pullback"}

\* C12: detect_phase recomputes the EMAs from the close column: the frame a
\* call was handed, the same closes with no EMA column and the same closes
\* with stale EMA columns all give the same phase and the same metrics.
C12_StaleColumnsIgnored ==
    \A t \in Callers :
        Valid(t) =>
            /\ result[t] = detect_phase(Self, Frame(arg[t].close))
            /\ result[t] =
                   detect_phase(Self, WithStaleEmas(Frame(arg[t].close)))

\* A call handed a rising series with stale, flat EMA columns has returned
\* TRENDING with EMAs that are not the stale ones.
C12_Witness ==
    \E t \in Callers :
        /\ Valid(t) /\ arg[t] = WithStaleEmas(Frame(arg[t].close))
        /\ result[t].phase = "trending"
        /\ result[t].metrics.ema_fast # Fin(Base)
        /\ result[t].metrics.fast_slope > 0

\* C13: a set_index step leaves the cache empty whatever was cached before,
\* and the cache stays empty over every step that is not an
\* update_index_data; an update_index_data(d) step leaves d in the cache,
\* and the cache keeps what it holds over every step that is neither a
\* set_index nor another update_index_data.
C13_CacheLifecycle ==
    [][/\ \A i \in MarketIndex : set_index(i) => index_data' = NoFrame
       /\ (index_data = NoFrame
               /\ ~\E d \in IndexFrames : update_index_data(d))
            => index_data' = NoFrame
       /\ \A d \in IndexFrames : update_index_data(d) => index_data' = d
       /\ (index_data # NoFrame
               /\ ~(\E i \in MarketIndex : set_index(i))
               /\ ~(\E d \in IndexFrames : update_index_data(d)))
            => index_data' = index_data]_vars

\* The cache is empty after an earlier update_index_data: set_index has
\* cleared it, under an index other than the default one.
C13_Witness ==
    /\ index_data = NoFrame
    /\ last_index_update # Never
    /\ config.index # DefaultConfig.index

\* The series calculate_slope is asked about: the three EMA columns of the
\* frame a call was handed and, when it holds no infinite value, its close
\* column.
SlopeInputs(t) ==
    {Fresh(t).cols[p] : p \in EmaCols(config)}
    \cup (IF \E i \in 1..arg[t].rows : IsInf(arg[t].close[i]) THEN {}
          ELSE {arg[t].close})

\* The last min(window, number of valid points) non-missing values.
ValidWindow(series, window) == LastN(DropNa(series), window)

\* The ordinary-least-squares slope of the points (i - 1, w[i]), in the
\* closed form 6 * sum((2x - (k - 1)) * y) / (k * (k^2 - 1)).
OlsSlope(w) ==
    LET k == Len(w)
    IN  Rdiv(6 * SumSeq([i \in 1..k |->
                            (2 * (i - 1) - (k - 1)) * (w[i].v - w[1].v)]),
             k * (k * k - 1))

\* A fit exists: at least 2 valid points, not all identical.
Fittable(series, window) ==
    /\ Len(ValidWindow(series, window)) >= 2
    /\ \E i \in 1..Len(ValidWindow(series, window)) :
           ValidWindow(series, window)[i] # ValidWindow(series, window)[1]

ValidDiffBars(close) ==
    {i \in 2..Len(close) : IsFin(close[i]) /\ IsFin(close[i - 1])}

\* The bars of the last 5 valid first-differences (of all of them when
\* fewer than 5 exist).
LastDiffBars(close) ==
    LET valid == ValidDiffBars(close)
    IN  {i \in valid : Cardinality({j \in valid : j > i}) < 5}

\* The mean of the last 5 valid first-differences, 0.0 when there is none.
MeanOfLastDiffs(close) ==
    LET bars == LastDiffBars(close)
    IN  IF bars = {} THEN 0
        ELSE Rdiv(SumSeq([i \in 1..Len(close) |->
                             IF i \in bars
                             THEN close[i].v - close[i - 1].v ELSE 0]),
                  Cardinality(bars))

RecursiveEma(ema, close, p) ==
    /\ Len(ema) = Len(close)
    /\ ema[1] = close[1]
    /\ \A i \in 2..Len(close) :
           ema[i] = Fin(Rdiv(2 * close[i].v + (p - 1) * ema[i - 1].v, p + 1))

\* C16: for a close column with no missing or infinite value,
\* calculate_emas leaves one column per configured period p, of as many
\* rows as the frame, holding the recursive EMA of the close with
\* alpha = 2 / (p + 1), seeded by the first close; so does
\* Indicators.calculate_emas for each of its periods.
C16_RecursiveEma ==
    \A t \in Callers :
        (Valid(t) /\ \A i \in 1..arg[t].rows : IsFin(arg[t].close[i])) =>
            /\ EmaCols(config) \subseteq DOMAIN Fresh(t).cols
            /\ \A p \in EmaCols(config) :
                   RecursiveEma(Fresh(t).cols[p], arg[t].close, p)
            /\ result[t].metrics.ema_slow
                   = Latest(Fresh(t).cols[config.slow_ema])
            /\ DOMAIN Indicators_calculate_emas(arg[t].close, DefaultPeriods)
                   = DefaultPeriods
            /\ \A p \in DefaultPeriods :
                   RecursiveEma(
                       Indicators_calculate_emas(arg[t].close, DefaultPeriods)[p],
                       arg[t].close, p)

\* A call has returned on a series of several bars whose three EMAs differ
\* from one another, from the first close and from the latest close.
C16_Witness ==
    \E t \in Callers :
        /\ Valid(t) /\ arg[t].rows >= 3
        /\ \A i \in 1..arg[t].rows : IsFin(arg[t].close[i])
        /\ result[t].metrics.ema_fast # result[t].metrics.ema_medium
        /\ result[t].metrics.ema_medium # result[t].metrics.ema_slow
        /\ result[t].metrics.ema_slow # arg[t].close[1]
        /\ result[t].metrics.ema_fast # result[t].metrics.close

\* The closes of a frame are one and the same finite value.
Constant(close) ==
    /\ Len(close) >= 1 /\ IsFin(close[1])
    /\ \A i \in 1..Len(close) : close[i] = close[1]

\* C17: for every constant price series detect_phase returns UNORDERED
\* with all three EMAs equal to the constant, all three slopes 0 and the
\* momentum 0.
C17_ConstantSeries ==
    \A t \in Callers :
        (Valid(t) /\ Constant(arg[t].close)) =>
            /\ result[t].phase = "unordered"
            /\ result[t].metrics.ema_fast = arg[t].close[1]
            /\ result[t].metrics.ema_medium = arg[t].close[1]
            /\ result[t].metrics.ema_slow = arg[t].close[1]
            /\ result[t].metrics.fast_slope = 0
            /\ result[t].metrics.medium_slope = 0
            /\ result[t].metrics.slow_slope = 0
            /\ result[t].metrics.price_momentum = 0

\* A call has returned UNORDERED on 100 bars at 100.0.
C17_Witness ==
    \E t \in Callers :
        /\ Valid(t) /\ Constant(arg[t].close)
        /\ arg[t].rows = 100 /\ arg[t].close[1] = Fin(Base)
        /\ result[t].phase = "unordered"

\* C18: for 100 bars rising by 0.5 per bar from 100.0 detect_phase returns
\* TRENDING: fast EMA > medium EMA > slow EMA, all below the price, the
\* fast EMA more than 1% of the price above the slow one, the slopes at or
\* above 0.35, 0.35 and 0.25, and the momentum 0.5.
C18_SteadyRise ==
    \A t \in Callers :
        (Valid(t) /\ arg[t].close = TrendScenario) =>
            /\ result[t].phase = "trending"
            /\ XGt(result[t].metrics.close, result[t].metrics.ema_fast)
            /\ XGt(result[t].metrics.ema_fast, result[t].metrics.ema_medium)
            /\ XGt(result[t].metrics.ema_medium, result[t].metrics.ema_slow)
            /\ XGt(XSub(result[t].metrics.ema_fast, result[t].metrics.ema_slow),
                   XScale(result[t].metrics.close, 1, 100))
            /\ result[t].metrics.fast_slope >= Dec(35, 100)
            /\ result[t].metrics.medium_slope >= Dec(35, 100)
            /\ result[t].metrics.slow_slope >= Dec(25, 100)
            /\ result[t].metrics.price_momentum = Dec(5, 10)

\* A call has returned on the 100 bars rising by 0.5 from 100.0 to 149.5.
C18_Witness ==
    \E t \in Callers :
        /\ Valid(t) /\ arg[t].close = TrendScenario
        /\ arg[t].rows = 100
        /\ arg[t].close[1] = Fin(Base)
        /\ result[t].metrics.close = Fin(Base + 99 * Dec(5, 10))

\* C19: for a 70-bar uptrend of +0.5 per bar from 100, a 15-bar linear
\* retracement of 38.2% of its range and 15 bars drifting up by 0.1 per bar
\* (as the test builds it, and with every bar a step from the one before)
\* detect_phase returns PULLBACK, and the first 70 bars alone satisfy the
\* trending predicate.
C19_PullbackScenario ==
    \A t \in Callers :
        Valid(t) =>
            /\ arg[t].close \in {PullbackTestScenario, PullbackScenario}
                   => result[t].phase = "pullback"
            /\ arg[t].close \in {SubSeq(PullbackTestScenario, 1, 70),
                                 SubSeq(PullbackScenario, 1, 70)}
                   => Trending(t)

\* Calls have returned PULLBACK on the 100 bars of the test's series, with
\* the price between the fast and the medium EMA and a fast slope below 0.
C19_Witness ==
    \E t \in Callers :
        /\ Valid(t) /\ arg[t].close = PullbackTestScenario
        /\ arg[t].rows = 100
        /\ result[t].phase = "pullback"
        /\ XLt(result[t].metrics.ema_fast, result[t].metrics.close)
        /\ XLt(result[t].metrics.close, result[t].metrics.ema_medium)
        /\ result[t].metrics.fast_slope < 0

\* C20 as stated: for 60 flat bars at 100.0 followed by 20 bars whose
\* increment grows in a line from 0.2 to 0.6 detect_phase returns EMERGING
\* with all three slopes positive and below the trending thresholds 0.35,
\* 0.35 and 0.25.
C20_EmergingBelowTrending ==
    \A t \in Callers :
        (Valid(t) /\ arg[t].close = EmergingScenario) =>
            /\ result[t].phase = "emerging"
            /\ 0 < result[t].metrics.fast_slope
            /\ result[t].metrics.fast_slope < Dec(35, 100)
            /\ 0 < result[t].metrics.medium_slope
            /\ result[t].metrics.medium_slope < Dec(35, 100)
            /\ 0 < result[t].metrics.slow_slope
            /\ result[t].metrics.slow_slope < Dec(25, 100)

\* C20 as amended: on that series detect_phase returns EMERGING with all
\* three slopes positive, the medium and the slow slope below the trending
\* thresholds 0.35 and 0.25, and the fast slope above the trending
\* threshold 0.35 and within the emerging bound 0.75.
C20_EmergingScenario ==
    \A t \in Callers :
        (Valid(t) /\ arg[t].close = EmergingScenario) =>
            /\ result[t].phase = "emerging"
            /\ Dec(35, 100) < result[t].metrics.fast_slope
            /\ result[t].metrics.fast_slope <= Dec(75, 100)
            /\ 0 < result[t].metrics.medium_slope
            /\ result[t].metrics.medium_slope < Dec(35, 100)
            /\ 0 < result[t].metrics.slow_slope
            /\ result[t].metrics.slow_slope < Dec(25, 100)

\* A call has returned on the 80 bars that end 8.0 above the flat stretch.
C20_Witness ==
    \E t \in Callers :
        /\ Valid(t) /\ arg[t].close = EmergingScenario
        /\ arg[t].rows = 80
        /\ arg[t].close[60] = Fin(Base)
        /\ result[t].metrics.close = Fin(Base + 8 * Scale)
        /\ Emerging(t) /\ ~Trending(t)

\* C21: whenever the momentum detect_phase reports is not positive, the
\* phase it returns is UNORDERED, never PULLBACK, EMERGING or TRENDING; the
\* whipsaw series, the emerging move followed by 20 falling bars, the deep
\* retracement and the retracement still falling at its last bar all have a
\* momentum that is not positive and are UNORDERED.
C21_NoPhaseWithoutMomentum ==
    \A t \in Callers :
        Valid(t) =>
            LET momentum == result[t].metrics.price_momentum
            IN  /\ momentum <= 0 => result[t].phase = "unordered"
                /\ arg[t].close \in {WhipsawScenario, FailedEmergingScenario,
                                      DeepPullbackScenario, FallingRetracement}
                       => momentum <= 0

\* A call has returned on the retracement that is still falling: the close
\* lies between the fast and the medium EMA, the slow EMA still rises and
\* the momentum is negative.
C21_Witness ==
    \E t \in Callers :
        /\ Valid(t) /\ arg[t].close = FallingRetracement
        /\ result[t].metrics.price_momentum < 0
        /\ result[t].metrics.slow_slope > 0
        /\ XLt(result[t].metrics.close, result[t].metrics.ema_fast)
        /\ XGt(result[t].metrics.close, result[t].metrics.ema_medium)
        /\ result[t].phase = "unordered"

\* C22: for the flat base at 100.0 followed by 20 bars whose increment is
\* 0.35 + 0.015 * i, detect_phase returns EMERGING and the fast slope it
\* reports is at least 0.35 and below 0.4.
C22_StrongEmergingBand ==
    \A t \in Callers :
        (Valid(t) /\ arg[t].close = StrongEmergingScenario) =>
            /\ result[t].phase = "emerging"
            /\ Dec(35, 100) <= result[t].metrics.fast_slope
            /\ result[t].metrics.fast_slope < Dec(4, 10)

\* C23: an invalid configuration is rejected when the detector is
\* constructed, so that every call of detect_phase that returns was made
\* under a valid configuration and did not end by raising.
C23_RejectedAtConstruction ==
    \A t \in Callers :
        Done(t) => ValidConfig(config) /\ ~Raised(result[t])

\* The keys of the metrics mapping that detect_phase fills with numbers (the
\* latest EMAs and close, the slopes, the momentum), and the keys it fills
\* with text (the label of the phase, the error message).
NumericKeys ==
    {"ema_fast", "ema_medium", "ema_slow", "close",
     "fast_slope", "medium_slope", "slow_slope", "price_momentum"}

LabelKeys == {"detected_phase", "error"}

\* C24: the metrics mapping detect_phase returns maps keys to numbers on
\* every path: it has no key whose value is a label or a nested object.
C24_FlatNumericMetrics ==
    \A t \in Callers :
        Done(t) =>
            /\ DOMAIN result[t].metrics \subseteq NumericKeys
            /\ DOMAIN result[t].metrics \cap LabelKeys = {}

\* C25: for every close series, Indicators.calculate_emas returns one
\* column for each of the periods 5, 7, 9, 11, 13, 34 and 89, and every
\* value of every column lies between the minimum and the maximum of the
\* close series (a value that is missing, at a bar before the first close,
\* is left out, as Series.min and Series.max leave missing values out).
C25_EmaWithinRange ==
    \A t \in Callers :
        Valid(t) =>
            LET close == DropNa(arg[t].close)
                emas == Indicators_calculate_emas(arg[t].close, DefaultPeriods)
            IN  /\ DOMAIN emas = DefaultPeriods
                /\ close # <<>> =>
                       LET lo == close[CHOOSE j \in 1..Len(close) :
                                      \A k \in 1..Len(close) : XLe(close[j], close[k])]
                           hi == close[CHOOSE j \in 1..Len(close) :
                                      \A k \in 1..Len(close) : XLe(close[k], close[j])]
                       IN  \A p \in DefaultPeriods :
                               /\ Len(emas[p]) = arg[t].rows
                               /\ \A i \in 1..arg[t].rows :
                                      IsNaN(emas[p][i])
                                      \/ (XLe(lo, emas[p][i]) /\ XLe(emas[p][i], hi))

\* A call has returned on a series whose closes are not all the same and
\* whose 5-bar and 89-bar averages end strictly between the lowest and the
\* highest close, away from one another.
C25_Witness ==
    \E t \in Callers :
        /\ Valid(t) /\ arg[t].rows >= 3
        /\ \A i \in 1..arg[t].rows : IsFin(arg[t].close[i])
        /\ LET emas == Indicators_calculate_emas(arg[t].close, DefaultPeriods)
               n == arg[t].rows
           IN  /\ XLt(emas[89][n], emas[5][n])
               /\ XLt(emas[5][n], arg[t].close[n])
               /\ XLt(arg[t].close[1], emas[89][n])
               /\ \E i \in 1..n : XLt(arg[t].close[i], arg[t].close[1])

\* The latest strategy call was of the function op.
Called(op) == returned.op = op

\* Decimal('20') / Decimal('0.0001')
ExpectedSize == QDiv(Q(20, 1), Q(1, 10000))

\* C26: calculate_position_size returns (account_size * risk_per_trade /
\* pips at risk) / pip_value rounded to 0.01, and for the account of 100000
\* at 2% risk, entry 100.00, stop 99.00 and pip value 0.0001 it returns
\* 20 / 0.0001 = 200000.
C26_PositionSize ==
    (Called("calculate_position_size") /\ ~Raised(returned.value)) =>
        LET pips_at_risk ==
                QDiv(QAbs(QSub(returned.entry_price, returned.stop_loss_price)),
                     returned.pip_value)
        IN  /\ returned.value =
                   Quantize(QDiv(QDiv(QMul(risk_manager.account_size,
                                           risk_manager.risk_per_trade),
                                      pips_at_risk),
                                 returned.pip_value))
            /\ (/\ risk_manager = DefaultRiskManager
                /\ returned.entry_price = Q(100, 1)
                /\ returned.stop_loss_price = Q(99, 1)
                /\ returned.pip_value = Q(1, 10000))
                   => returned.value = ExpectedSize

\* C27: check_short_entry returns True whenever the close is within 0.1% of
\* the 34 EMA, the close is below the 13 EMA, the PSAR is above the close
\* and the MACD line is below the signal line; so it does for ema_13 = 46,
\* ema_34 = 45, ema_89 = 50, close = 45, psar = 47, macd -0.5, signal -0.3.
C27_ShortEntry ==
    Called("check_short_entry") =>
        ((/\ ~AwayFrom(returned.close, returned.ema_34)
          /\ returned.close < returned.ema_13
          /\ returned.psar > returned.close
          /\ returned.macd_line.some /\ returned.signal_line.some
          /\ returned.macd_line.v < returned.signal_line.v)
            => returned.value = TRUE)

\* C28: the EMA-only detect_phase returns 'unordered' when ema_13 lies
\* strictly between ema_34 and ema_89; 'trending' exactly when ema_13 is
\* above both, all three previous values are supplied and each current EMA
\* is strictly greater than its previous value; 'emerging' when ema_13 is
\* above both and that confirmation is missing; 'unordered' in every other
\* case.
C28_EmaOnlyPhase ==
    Called("detect_phase") =>
        LET r == returned
            between ==
                \/ (r.ema_34 < r.ema_13 /\ r.ema_13 < r.ema_89)
                \/ (r.ema_89 < r.ema_13 /\ r.ema_13 < r.ema_34)
            above == r.ema_13 > r.ema_34 /\ r.ema_13 > r.ema_89
            confirmed ==
                /\ \A prev \in {r.prev_ema_13, r.prev_ema_34, r.prev_ema_89} : prev.some
                /\ r.ema_13 > r.prev_ema_13.v
                /\ r.ema_34 > r.prev_ema_34.v
                /\ r.ema_89 > r.prev_ema_89.v
        IN  /\ between => r.value = "unordered"
            /\ r.value = "trending" <=> (above /\ confirmed)
            /\ (above /\ ~confirmed) => r.value = "emerging"
            /\ ~above => r.value = "unordered"

\* The call of test_trending_phase_detection has returned 'trending': EMAs
\* 60, 50 and 40 after 59, 49 and 39.
C28_Witness ==
    /\ Called("detect_phase")
    /\ returned.ema_13 = 60 * Scale /\ returned.prev_ema_13 = Some(59 * Scale)
    /\ returned.ema_34 = 50 * Scale /\ returned.prev_ema_34 = Some(49 * Scale)
    /\ returned.ema_89 = 40 * Scale /\ returned.prev_ema_89 = Some(39 * Scale)
    /\ returned.value = "trending"

\* C29: a market update that carries at least 90 bars stores the newly
\* computed state as the symbol's latest state and calls every registered
\* phase-change callback exactly when no state was stored before or the
\* detected phase differs from the stored one; an update with fewer than 90
\* bars changes no stored state and calls no callback.
C29_StateManager ==
    [][\A symbol \in Symbols, bars \in UpdateFrames :
          handle_market_update(symbol, bars) =>
              IF Bars(bars) >= EnoughBars
              THEN LET phase == detect_phase(ManagerDetector, bars).phase
                       phase_changed ==
                           \/ get_current_state(symbol) = NoState
                           \/ get_current_state(symbol).phase # phase
                   IN  /\ latest_states'[symbol] # NoState
                       /\ latest_states'[symbol].phase = phase
                       /\ notified' =
                              IF phase_changed
                              THEN notified \o
                                   [i \in 1..Len(phase_change_callbacks) |->
                                       <<phase_change_callbacks[i], symbol, phase>>]
                              ELSE notified
              ELSE UNCHANGED <<latest_states, notified>>]_vars

\* C30: once stop_streaming has returned, ws_running is False and the
\* WebSocket thread makes no further connection attempt, also when the
\* thread had started and had not yet created the WebSocketApp.
C30_StopStops ==
    [][main_pc = "stopped" => (~ws_running /\ ~ThreadConnect)]_vars

====
